---- MODULE Spec2Model ----
(***************************************************************************)
(* LibbyRip: the two metadata tools that read one metadata.json.           *)
(*                                                                         *)
(*   bakeMetadata.py    bake_metadata: for every "Part N" file, in order,  *)
(*                      load it, set the flat tags, validate the chapter   *)
(*                      offsets of spine N-1, write the chapter frames and *)
(*                      the table of contents, save.                       *)
(*   buildChapters.py   Metadata.from_json, then metadata_to_ffmpeg or     *)
(*                      metadata_to_chapters_txt.                          *)
(*                                                                         *)
(* Numbers of seconds (JSON numbers, whole or fractional) are held as a    *)
(* whole number of microseconds, the resolution of datetime.timedelta:     *)
(* 1.5 s is 1500000.  On the values drawn here (multiples of half a        *)
(* second) Python's float arithmetic is exact, so int(x), int(x * 1000)    *)
(* and timedelta.total_seconds() are the integer operations below.         *)
(***************************************************************************)
EXTENDS Integers, Sequences, FiniteSets, TLC

VARIABLES
    tool,       \* which script runs: "bake" or "build"
    metadata,   \* the parsed metadata.json
    pc,         \* position of the running script
    index,      \* bake_metadata: 1-based position in parts (enumerate index + 1)
    audiofile,  \* bake_metadata: the in-memory tag of the part being processed
    loaded,     \* bake_metadata: part numbers eyed3.load was called on
    disk,       \* the tag stored in each part file
    saved,      \* part numbers whose tag this run has saved
    progress,   \* bake_metadata: progress_callback calls, as <<part, percent>>
    error,      \* <<>> or <<the exception raised>>
    meta,       \* buildChapters: <<>> or <<the Metadata from_json returned>>
    output      \* buildChapters: <<>> or <<what the formatter returned>>

vars == <<tool, metadata, pc, index, audiofile, loaded, disk, saved, progress,
          error, meta, output>>

-----------------------------------------------------------------------------
(* Bounds of the inputs *)

MaxSpines == 2          \* spine lists have 1 .. MaxSpines entries
MaxChapters == 3        \* chapter lists given to bake_metadata
MaxBuildChapters == 2   \* chapter lists given to Metadata.from_json
MaxCreators == 2        \* creator lists

Second == 1000000       \* microseconds in one second
Milli == 1000           \* microseconds in one millisecond, milliseconds in one second
HalfSecond == Second \div 2

None == "<None>"        \* Python's None

Offsets == {0, HalfSecond, Second}
Durations == {3 * HalfSecond, 2 * Second}
Names == {"", "Jane", "Bob"}
Roles == {"author", "narrator", "author and narrator", "editor"}
Titles == <<"Intro", "Ch1", "Ch2", "Ch3", "Ch4", "Ch5">>

\* Chapter lists of up to maxLen entries: the k-th entry is titled Titles[k].
ChapterLists(maxLen, spineIdx) ==
    UNION { { [k \in 1..n |-> [title |-> Titles[k], spine |-> f[k][1], offset |-> f[k][2]]]
              : f \in [1..n -> spineIdx \X Offsets] } : n \in 0..maxLen }

SpineLists == UNION { [1..n -> Durations] : n \in 1..MaxSpines }

CreatorLists ==
    UNION { [1..n -> [name : Names, role : Roles]] : n \in 0..MaxCreators }

SampleCreator == << [name |-> "Jane", role |-> "author"] >>
SampleChapters == << [title |-> "Intro", spine |-> 0, offset |-> 0] >>

\* The metadata.json documents drawn for a run of `t`.  Chapters and creators do
\* not meet in either script, so each is varied with the other held at a sample.
\* bake_metadata looks chapters up by the spine index of an existing part, so its
\* chapters carry indices of existing spines; from_json indexes the spine list
\* with whatever the chapter holds, so its chapters carry any index near the list.
Inputs(t) ==
    { [title |-> "Book", creator |-> cr, spine |-> sp, chapters |-> ch] :
        cr \in {SampleCreator}, sp \in SpineLists,
        ch \in IF t = "bake"
               THEN ChapterLists(MaxChapters, 0..(MaxSpines - 1))
               ELSE ChapterLists(MaxBuildChapters, (-(MaxSpines + 1))..MaxSpines) }
    \cup
    { [title |-> "Book", creator |-> cr, spine |-> sp, chapters |-> ch] :
        cr \in CreatorLists, sp \in {<<2 * Second>>}, ch \in {SampleChapters} }

-----------------------------------------------------------------------------
(* Python helpers *)

\* int(x) of a number of seconds x >= 0, and of x < 0 (truncation toward zero)
IntSeconds(us) == IF us >= 0 THEN us \div Second ELSE -((-us) \div Second)

\* int(x * 1000) of a number of seconds x
IntMillis(us) == IF us >= 0 THEN us \div Milli ELSE -((-us) \div Milli)

\* bool(v) is False
Falsy(v) == v = None \/ v = ""

RECURSIVE SumSeq(_)
SumSeq(s) == IF s = <<>> THEN 0 ELSE s[1] + SumSeq(Tail(s))

\* seq[i] with Python's indexing: 0-based, negative indices count from the end
PyInRange(seq, i) == -Len(seq) <= i /\ i < Len(seq)
PyIndex(seq, i) == IF i >= 0 THEN seq[i + 1] ELSE seq[Len(seq) + i + 1]

\* f"ch{i}"
ChIds == <<"ch0", "ch1", "ch2", "ch3", "ch4", "ch5", "ch6", "ch7", "ch8", "ch9">>
Cid(i) == ChIds[i + 1]

-----------------------------------------------------------------------------
(* bakeMetadata.py: bake_metadata *)

\* "author" in creator["role"]
RoleNamesAuthor(role) == role \in {"author", "author and narrator"}

\* authorName: "Unknown", overwritten by every creator whose role contains "author"
RECURSIVE AuthorName(_)
AuthorName(creator) ==
    IF creator = <<>> THEN "Unknown"
    ELSE LET c == creator[Len(creator)]
         IN  IF RoleNamesAuthor(c.role) THEN c.name
             ELSE AuthorName(SubSeq(creator, 1, Len(creator) - 1))

\* chapters.get(spine_index, []): the chapters of one spine, in file order
SpineChapters(md, spine_index) ==
    SelectSeq(md.chapters, LAMBDA c : c.spine = spine_index)

\* parts: the "Part N" files of the working directory, sorted; one per spine
Parts(md) == [i \in 1..Len(md.spine) |-> i]

\* FirstOverlap with the comparison `<`: equal offsets pass
FirstOverlapStrict(sc) ==
    LET bad == { i \in 1..(Len(sc) - 1) : sc[i + 1].offset < sc[i].offset }
    IN  IF bad = {} THEN 0 ELSE CHOOSE i \in bad : \A j \in bad : i <= j

\* The 0-based position of the first chapter whose offset is <= its predecessor's,
\* or 0 when the offsets are strictly increasing (position 0 is never compared).
FirstOverlap(sc) ==
    LET bad == { i \in 1..(Len(sc) - 1) : sc[i + 1].offset <= sc[i].offset }
    IN  IF bad = {} THEN 0 ELSE CHOOSE i \in bad : \A j \in bad : i <= j

\* The ValueError of lines 99-113: error_parts
OverlapError(sc, spine_index, i) ==
    [ kind |-> "ValueError",
      spine |-> spine_index,
      prior_title |-> sc[i].title,
      prior_offset |-> sc[i].offset,
      title |-> sc[i + 1].title,
      offset |-> sc[i + 1].offset ]

\* FrameId numbering the frames from 0
FrameIdFromZero(j) == Cid(j)

\* The id given to the frame of the chapter at 0-based position j < n - 1
\* (the frame is written when the loop reaches position j + 1).
FrameId(j) == Cid(j + 1)

FrameStart(offset) == IntSeconds(offset) * Milli

\* End of a chapter that is followed by `next`
FrameEnd(next) == IntSeconds(next.offset) * Milli - 1

\* End of the last chapter: the duration of the spine the loop's last chapter names
LastEnd(md, chap) == IntMillis(md.spine[chap.spine + 1])

\* audiofile.tag.chapters after lines 116-141
ChapterFrames(md, sc) ==
    LET n == Len(sc) IN
    [ m \in 1..n |->
        IF m < n
        THEN [ id |-> FrameId(m - 1), start |-> FrameStart(sc[m].offset),
               end |-> FrameEnd(sc[m + 1]), title |-> sc[m].title ]
        ELSE [ id |-> "last", start |-> FrameStart(sc[m].offset),
               end |-> LastEnd(md, sc[n]), title |-> sc[m].title ] ]

\* child_ids after the loop of lines 120-131
ChildIds(sc) == [ m \in 1..(Len(sc) - 1) |-> FrameId(m - 1) ]

\* The table of contents of lines 143-148
TableOfContents(sc) ==
    [ id |-> "toc", toplevel |-> TRUE,
      child_ids |-> ChildIds(sc) \o <<"last">>,
      description |-> "Table of Contents" ]

EmptyTag ==
    [ title |-> 0, artist |-> None, album |-> None, track |-> <<0, 0>>,
      chapters |-> <<>>, toc |-> <<>> ]

\* Lines 74-88: the tag is cleared (or created) and the flat attributes set
FlatTag(md, number) ==
    [ title |-> number, artist |-> AuthorName(md.creator), album |-> md.title,
      track |-> <<number, Len(md.spine)>>, chapters |-> <<>>, toc |-> <<>> ]

Number == Parts(metadata)[index]
SpineIndex == Number - 1
Total == Len(Parts(metadata))

\* Lines 70-88
LoadPart ==
    /\ tool = "bake" /\ pc = "load"
    /\ audiofile' = FlatTag(metadata, Number)
    /\ loaded' = loaded \cup {Number}
    /\ pc' = "validate"
    /\ UNCHANGED <<tool, metadata, index, disk, saved, progress, error, meta, output>>

\* Lines 90-114
ValidatePart ==
    /\ tool = "bake" /\ pc = "validate"
    /\ LET sc == SpineChapters(metadata, SpineIndex)
           i == FirstOverlap(sc)
       IN  IF i # 0
           THEN /\ error' = << OverlapError(sc, SpineIndex, i) >>
                /\ pc' = "raised"
           ELSE /\ error' = error
                /\ pc' = "encode"
    /\ UNCHANGED <<tool, metadata, index, audiofile, loaded, disk, saved, progress,
                   meta, output>>

\* Lines 116-148
EncodePart ==
    /\ tool = "bake" /\ pc = "encode"
    /\ LET sc == SpineChapters(metadata, Number - 1)
       IN  audiofile' = [ audiofile EXCEPT !.chapters = ChapterFrames(metadata, sc),
                                           !.toc = << TableOfContents(sc) >> ]
    /\ pc' = "save"
    /\ UNCHANGED <<tool, metadata, index, loaded, disk, saved, progress, error,
                   meta, output>>

\* Lines 150-156, and the loop's next iteration or end
SavePart ==
    /\ tool = "bake" /\ pc = "save"
    /\ disk' = [ disk EXCEPT ![Number] = audiofile ]
    /\ saved' = saved \cup {Number}
    /\ progress' = Append(progress, <<Number, (index * 100) \div Total>>)
    /\ index' = index + 1
    /\ pc' = IF index < Total THEN "load" ELSE "done"
    /\ UNCHANGED <<tool, metadata, audiofile, loaded, error, meta, output>>

-----------------------------------------------------------------------------
(* buildChapters.py *)

\* SpineOffsets with the spine's own duration included: sum(spines[:i + 1])
SpineOffsetsInclusive(spines) ==
    [ i \in 1..Len(spines) |-> SumSeq(SubSeq(spines, 1, i)) ]

\* spine_offsets: the start of each spine, the sum of the durations before it
SpineOffsets(spines) ==
    [ i \in 1..Len(spines) |-> SumSeq(SubSeq(spines, 1, i - 1)) ]

\* timedelta(seconds = x): a whole number of microseconds
Timedelta(us) == us

\* Chapter(chapter["title"], timedelta(seconds = offset + spine_offsets[spine]))
ChapterOf(spines, chapter) ==
    [ title |-> chapter.title,
      total_offset |-> Timedelta(chapter.offset + PyIndex(SpineOffsets(spines), chapter.spine)) ]

\* contributors.get(role): the dict comprehension keeps the last entry of a role
RECURSIVE Contributor(_, _)
Contributor(creator, role) ==
    IF creator = <<>> THEN None
    ELSE LET c == creator[Len(creator)]
         IN  IF c.role = role THEN c.name
             ELSE Contributor(SubSeq(creator, 1, Len(creator) - 1), role)

\* Lines 68-79: an explicit role, else the combined role when that is truthy
Resolve(explicit, both) ==
    IF ~Falsy(both) /\ Falsy(explicit) THEN both ELSE explicit

Author(creator) ==
    Resolve(Contributor(creator, "author"), Contributor(creator, "author and narrator"))

Narrator(creator) ==
    Resolve(Contributor(creator, "narrator"), Contributor(creator, "author and narrator"))

\* The chapters whose spine index makes spine_offsets[...] raise IndexError
BadSpineChapters(md) ==
    { k \in 1..Len(md.chapters) : ~PyInRange(md.spine, md.chapters[k].spine) }

\* Metadata.from_json's return value
MetadataOf(md) ==
    [ title |-> md.title,
      narrator |-> Narrator(md.creator),
      author |-> Author(md.creator),
      total_duration |-> Timedelta(SumSeq(md.spine)),
      chapters |-> [ k \in 1..Len(md.chapters) |-> ChapterOf(md.spine, md.chapters[k]) ] ]

\* Lines 41-90
FromJson ==
    /\ tool = "build" /\ pc = "from_json"
    /\ LET bad == BadSpineChapters(metadata)
       IN  IF bad # {}
           THEN /\ error' = << [ kind |-> "IndexError",
                                 chapter |-> CHOOSE k \in bad : \A j \in bad : k <= j ] >>
                /\ meta' = meta
                /\ pc' = "raised"
           ELSE /\ error' = error
                /\ meta' = << MetadataOf(metadata) >>
                /\ pc' = "format"
    /\ UNCHANGED <<tool, metadata, index, audiofile, loaded, disk, saved, progress,
                   output>>

\* format_timedelta: the fields of HH:MM:SS.mmm
FormatTimedelta(d) ==
    [ hours |-> (d \div Second) \div 3600,
      minutes |-> ((d \div Second) \div 60) % 60,
      seconds |-> (d \div Second) % 60,
      millis |-> (d % Second) \div Milli ]

\* metadata_to_chapters_txt: one line per chapter
ChaptersTxt(m) ==
    [ k \in 1..Len(m.chapters) |->
        [ time |-> FormatTimedelta(m.chapters[k].total_offset),
          title |-> m.chapters[k].title ] ]

\* format_chapter_timestamp: int(total_seconds() * 1000)
FormatChapterTimestamp(chapter) == IntMillis(chapter.total_offset)

\* NextChapters without the [1:]: every chapter is paired with itself
NextChaptersUnshifted(m) ==
    m.chapters \o << [ title |-> "END", total_offset |-> m.total_duration ] >>

\* metadata.chapters[1:] + [Chapter("END", metadata.total_duration)]
NextChapters(m) ==
    Tail(m.chapters) \o << [ title |-> "END", total_offset |-> m.total_duration ] >>

\* zip(metadata.chapters, ...): as many pairs as the shorter list
ZipLen(a, b) == IF Len(a) <= Len(b) THEN Len(a) ELSE Len(b)

\* chapters_part: one [CHAPTER] block per pair of the zip
ChapterBlocks(m) ==
    IF m.chapters = <<>> THEN <<>>
    ELSE LET nx == NextChapters(m) IN
         [ k \in 1..ZipLen(m.chapters, nx) |->
             [ section |-> "[CHAPTER]",
               timebase |-> <<1, Milli>>,
               start |-> FormatChapterTimestamp(m.chapters[k]),
               end |-> FormatChapterTimestamp(nx[k]),
               title |-> m.chapters[k].title ] ]

\* metadata_to_ffmpeg's text, by fields (escaping of the text fields is not modelled)
Ffmpeg(m) ==
    [ kind |-> "ffmpeg",
      header |-> ";FFMETADATA1",
      title |-> m.title,
      artist |-> IF Falsy(m.author) THEN <<>> ELSE << m.author >>,
      chapters |-> ChapterBlocks(m) ]

\* Lines 118-143, run for --ffmpeg
MetadataToFfmpeg ==
    /\ tool = "build" /\ pc = "format"
    /\ output' = << Ffmpeg(meta[1]) >>
    /\ pc' = "done"
    /\ UNCHANGED <<tool, metadata, index, audiofile, loaded, disk, saved, progress,
                   error, meta>>

\* Lines 102-107, run for --chapters
MetadataToChaptersTxt ==
    /\ tool = "build" /\ pc = "format"
    /\ output' = << [ kind |-> "chapters", lines |-> ChaptersTxt(meta[1]) ] >>
    /\ pc' = "done"
    /\ UNCHANGED <<tool, metadata, index, audiofile, loaded, disk, saved, progress,
                   error, meta>>

-----------------------------------------------------------------------------
Init ==
    /\ tool \in {"bake", "build"}
    /\ metadata \in Inputs(tool)
    /\ pc = IF tool = "bake" THEN "load" ELSE "from_json"
    /\ index = 1
    /\ audiofile = EmptyTag
    /\ loaded = {}
    /\ disk = [ n \in 1..Len(metadata.spine) |-> EmptyTag ]
    /\ saved = {}
    /\ progress = <<>>
    /\ error = <<>>
    /\ meta = <<>>
    /\ output = <<>>

Next ==
    \/ LoadPart
    \/ ValidatePart
    \/ EncodePart
    \/ SavePart
    \/ FromJson
    \/ MetadataToFfmpeg
    \/ MetadataToChaptersTxt

Spec == Init /\ [][Next]_vars

-----------------------------------------------------------------------------
(* Properties of bake_metadata *)

Baking == tool = "bake"
Raised == pc = "raised"

\* Positions in metadata.chapters of the chapters of spine s
SpinePositions(s) ==
    { k \in 1..Len(metadata.chapters) : metadata.chapters[k].spine = s }

\* a and b are neighbours among the chapters of spine s, in file order
Consecutive(s, a, b) ==
    /\ a \in SpinePositions(s) /\ b \in SpinePositions(s) /\ a < b
    /\ ~ \E c \in SpinePositions(s) : a < c /\ c < b

\* The neighbouring pairs of spine s whose offsets do not increase
OffendingPairs(s) ==
    { p \in SpinePositions(s) \X SpinePositions(s) :
        /\ Consecutive(s, p[1], p[2])
        /\ metadata.chapters[p[2]].offset <= metadata.chapters[p[1]].offset }

\* The tag in memory holds no chapter frame and no table of contents
NothingEncoded == audiofile.chapters = <<>> /\ audiofile.toc = <<>>

\* C1: a part whose spine has a neighbouring pair (file order) with
\* offset[i] <= offset[i-1] makes the run raise an error naming the spine index
\* and the titles and offsets of the first such pair, before any chapter frame
\* or table of contents is set for the part and before the part is saved; a part
\* that reaches encoding or saving has no such pair.
C1_OverlapRaisesBeforeEncoding ==
    Baking =>
      /\ Raised =>
           /\ Len(error) = 1
           /\ error[1].spine = SpineIndex
           /\ \E p \in OffendingPairs(SpineIndex) :
                /\ \A q \in OffendingPairs(SpineIndex) : p[2] <= q[2]
                /\ error[1].prior_title = metadata.chapters[p[1]].title
                /\ error[1].prior_offset = metadata.chapters[p[1]].offset
                /\ error[1].title = metadata.chapters[p[2]].title
                /\ error[1].offset = metadata.chapters[p[2]].offset
           /\ NothingEncoded
           /\ Number \notin saved
           /\ disk[Number] = EmptyTag
      /\ pc \in {"encode", "save"} => OffendingPairs(SpineIndex) = {}
      /\ \A n \in saved : OffendingPairs(n - 1) = {}

\* C1 witness: the second part fails on a pair that is not the spine's first
\* pair, with equal offsets.
C1_Witness ==
    /\ Baking /\ Raised /\ index = 2
    /\ error[1].prior_title # "Intro"
    /\ error[1].offset = error[1].prior_offset
    /\ Cardinality(SpinePositions(SpineIndex)) = 3

\* The frames are written: the part is about to be saved
Encoded == Baking /\ pc = "save"

\* The chapters of the part being processed, in file order
Current == SpineChapters(metadata, SpineIndex)

\* C2: for a validated part with chapters at offsets o[0..k] and spine duration
\* D, the frame of c[i] starts at o[i] * 1000 ms, ends at o[i+1] * 1000 - 1 ms
\* for i < k, and the last frame ends at D * 1000 ms.
C2_FrameTimes ==
    Encoded =>
      /\ Len(audiofile.chapters) = Len(Current)
      /\ \A m \in 1..Len(Current) :
           /\ audiofile.chapters[m].start * Milli = Current[m].offset
           /\ m < Len(Current) =>
                (audiofile.chapters[m].end + 1) * Milli = Current[m + 1].offset
           /\ m = Len(Current) =>
                audiofile.chapters[m].end * Milli = metadata.spine[Number]

\* C3: when a part fails validation the run ends by raising, no later part is
\* loaded or saved, and no part file at all has been saved by the run.
C3_NoPartialOutput ==
    (Baking /\ Raised) =>
      /\ \A n \in loaded : n <= Number
      /\ saved = {}
      /\ \A n \in DOMAIN disk : disk[n] = EmptyTag

\* C4 as claimed: the i-th non-final chapter (i from 0) is stored as "ch{i}",
\* the final one as "last".
C4_IdsFromZero ==
    Encoded =>
      \A m \in 1..Len(audiofile.chapters) :
        audiofile.chapters[m].id =
          IF m < Len(audiofile.chapters) THEN ChIds[m] ELSE "last"

\* C4 amended: for a part with n >= 1 chapters the i-th non-final chapter
\* (i = 0 .. n-2) is stored as "ch{i+1}" ("ch1", "ch2", ...), the final one as
\* "last"; the table of contents is top-level, labelled "Table of Contents", and
\* its child ids are the ids of the part's chapter frames, in chapter order.
C4_IdsFromOne ==
    (Encoded /\ Len(Current) >= 1) =>
      /\ Len(audiofile.chapters) = Len(Current)
      /\ \A m \in 1..Len(audiofile.chapters) :
           /\ audiofile.chapters[m].title = Current[m].title
           /\ audiofile.chapters[m].id =
                IF m < Len(audiofile.chapters) THEN ChIds[m + 1] ELSE "last"
      /\ Len(audiofile.toc) = 1
      /\ audiofile.toc[1].toplevel
      /\ audiofile.toc[1].description = "Table of Contents"
      /\ audiofile.toc[1].child_ids =
           [ m \in 1..Len(audiofile.chapters) |-> audiofile.chapters[m].id ]

\* C4 witness: a part with three chapters has its frames written.
C4_Witness == Encoded /\ Len(Current) = 3 /\ Len(audiofile.chapters) = 3

\* C5: a part whose spine has no chapter raises no error, gets no chapter frame
\* and a table of contents with an empty child list, and is saved.
C5_EmptyToc ==
    Baking =>
      /\ (pc \in {"encode", "save"} /\ SpinePositions(SpineIndex) = {}) => error = <<>>
      /\ \A n \in saved :
           SpinePositions(n - 1) = {} =>
             /\ disk[n].chapters = <<>>
             /\ Len(disk[n].toc) = 1
             /\ disk[n].toc[1].child_ids = <<>>
             /\ \E i \in 1..Len(progress) : progress[i][1] = n

-----------------------------------------------------------------------------
(* Properties of buildChapters.py *)

Building == tool = "build"
Returned == Building /\ meta # <<>>

\* Sum of the durations of the first s spines
RECURSIVE StartOfSpine(_)
StartOfSpine(s) == IF s = 0 THEN 0 ELSE StartOfSpine(s - 1) + metadata.spine[s]

\* C6: from_json raises, and returns no Metadata, whenever some chapter's spine
\* index is outside 0 .. len(spine)-1, negative indices included.
C6_OutOfRangeRejected ==
    (Building /\ \E k \in 1..Len(metadata.chapters) :
                    metadata.chapters[k].spine \notin 0..(Len(metadata.spine) - 1))
      => /\ meta = <<>>
         /\ pc \in {"from_json", "raised"}

\* C7: from_json gives the chapter with in-range spine index s and offset o the
\* total_offset (durations of spines 0 .. s-1) + o, keeps the chapters in input
\* order with their titles, and sets total_duration to the sum of all durations.
C7_TotalOffsets ==
    Returned =>
      /\ Len(meta[1].chapters) = Len(metadata.chapters)
      /\ \A k \in 1..Len(metadata.chapters) :
           /\ meta[1].chapters[k].title = metadata.chapters[k].title
           /\ metadata.chapters[k].spine \in 0..(Len(metadata.spine) - 1) =>
                meta[1].chapters[k].total_offset =
                  StartOfSpine(metadata.chapters[k].spine) + metadata.chapters[k].offset
      /\ meta[1].total_duration = StartOfSpine(Len(metadata.spine))

\* C7 witness: two chapters, the second in the second spine at a non-zero offset.
C7_Witness ==
    /\ Returned
    /\ Len(metadata.chapters) = 2
    /\ metadata.chapters[1].spine = 0
    /\ metadata.chapters[2].spine = 1
    /\ metadata.chapters[2].offset > 0

\* The names of the creators with the given role
NamesWithRole(role) ==
    { metadata.creator[i].name :
        i \in { j \in 1..Len(metadata.creator) : metadata.creator[j].role = role } }

\* The precedence rule: an explicit entry's name, else the combined entry's, else None
ByPrecedence(value, role) ==
    IF NamesWithRole(role) # {} THEN value \in NamesWithRole(role)
    ELSE IF NamesWithRole("author and narrator") # {}
         THEN value \in NamesWithRole("author and narrator")
         ELSE value = None

\* C8: author and narrator are each the name of the explicit entry when one is
\* present, whatever that name is; else the name of the "author and narrator"
\* entry when one is present; else None.
C8_Precedence ==
    Returned =>
      /\ ByPrecedence(meta[1].author, "author")
      /\ ByPrecedence(meta[1].narrator, "narrator")

FfmpegDone == Building /\ output # <<>> /\ output[1].kind = "ffmpeg"

C10_TimeSorted ==
    Returned =>
      LET chs == meta[1].chapters
      IN  /\ \A i \in 1..(Len(chs) - 1) : chs[i].total_offset <= chs[i + 1].total_offset
          /\ chs # <<>> => chs[Len(chs)].total_offset <= meta[1].total_duration

-----------------------------------------------------------------------------
(* Properties across both tools, and of the frames' ranges *)

\* The artist tag agrees with the author from_json resolves; the placeholder
\* "Unknown" and an empty name stand for no author (None or an empty name).
AgreesWithAuthor(artist) ==
    \/ artist = Author(metadata.creator)
    \/ artist \in {"Unknown", ""} /\ Falsy(Author(metadata.creator))

\* C11: the artist bake_metadata writes into each part is the author that
\* Metadata.from_json resolves from the same creator list (explicit "author"
\* first, else "author and narrator"); the placeholder "Unknown" and an empty
\* name are taken as agreeing with an absent or empty author.
C11_ArtistIsAuthor ==
    Baking =>
      /\ pc \in {"validate", "encode", "save"} => AgreesWithAuthor(audiofile.artist)
      /\ \A n \in saved : AgreesWithAuthor(disk[n].artist)

\* C12: in a part that passed validation every chapter frame has
\* start_ms <= end_ms, and each frame ends before the next one starts.
C12_ClosedDisjointRanges ==
    Encoded =>
      LET frames == audiofile.chapters
      IN  /\ \A m \in 1..Len(frames) : frames[m].start <= frames[m].end
          /\ \A m \in 1..(Len(frames) - 1) : frames[m].end < frames[m + 1].start

=============================================================================
